---------------------------- MODULE Spec2Model ----------------------------
(*
  Bookstore admin backend: the document store helpers (database.py), the
  entity schemas (schemas.py) and the request handlers (main.py).

  Money is counted in units of 0.5 (20 is 10.0, 11 is 5.5), so every amount
  of the model is exactly representable as a float and the handlers'
  float arithmetic is exact on it.
  Time is the store's clock in BSON datetime ticks (milliseconds): two
  requests can read the same tick.
  Optional values are None (the empty tuple) or Some(v) (a one-tuple).
*)
EXTENDS Integers, Sequences, FiniteSets, TLC

VARIABLES started, adminuser, book, order, clock, nextId, resp, inflight

vars == <<started, adminuser, book, order, clock, nextId, resp, inflight>>

-----------------------------------------------------------------------------
(* Bounds *)

MaxDocs == 2
MaxClock == 1
NumClients == 2

-----------------------------------------------------------------------------
(* Values *)

None == <<>>
Some(v) == <<v>>

\* An id as the handlers receive it: a string. valid says whether it is 24
\* hex digits, n which ObjectId it then denotes.
IdStr(n) == [valid |-> TRUE, n |-> n]
MalformedId == [valid |-> FALSE, n |-> 0]
\* ObjectIds are handed out 1, 2, ...; the seed admin takes the first, so
\* MaxDocs books and orders end at LastId. The first is well-formed and in
\* neither the book nor the order collection.
LastId == MaxDocs + 1
IdStrings == {IdStr(n) : n \in 1..LastId} \cup {MalformedId}

\* bson.ObjectId(doc_id): the native id, or InvalidId raised.
ObjectId(doc_id) ==
  IF doc_id.valid THEN [raised |-> FALSE, oid |-> doc_id.n]
  ELSE [raised |-> TRUE, oid |-> 0]

\* A collection is a function from the ObjectIds it holds to documents.
EmptyCollection == [i \in {} |-> None]

\* $set: the fields of data overwrite those of doc, the others stay.
SetFields(doc, data) ==
  [f \in (DOMAIN doc) \cup (DOMAIN data) |->
     IF f \in DOMAIN data THEN data[f] ELSE doc[f]]

-----------------------------------------------------------------------------
(* database.py *)

\* insert_one of data stamped with created_at = updated_at = now, under a
\* fresh ObjectId.
create_document(coll, oid, data, now) ==
  [i \in (DOMAIN coll) \cup {oid} |->
     IF i = oid
     THEN SetFields(data, [_id |-> oid, created_at |-> now, updated_at |-> now])
     ELSE coll[i]]

\* find_one by _id inside try/except: None on a malformed or absent id.
get_document_by_id(coll, doc_id) ==
  LET p == ObjectId(doc_id) IN
  IF p.raised THEN None
  ELSE IF p.oid \in DOMAIN coll THEN Some(coll[p.oid]) ELSE None

update_document_keeps_updated_at(coll, doc_id, data, now) ==
  LET p == ObjectId(doc_id) IN
  IF p.raised THEN [raised |-> TRUE, ok |-> FALSE, coll |-> coll]
  ELSE IF p.oid \notin DOMAIN coll THEN [raised |-> FALSE, ok |-> FALSE, coll |-> coll]
  ELSE LET new == SetFields(coll[p.oid], data) IN
       [raised |-> FALSE, ok |-> new # coll[p.oid],
        coll |-> [coll EXCEPT ![p.oid] = new]]

\* update_one({_id: ObjectId(doc_id)}, {$set: data + updated_at}); the parse is
\* outside any try, the result is modified_count > 0: a matched document that
\* the $set leaves as it was counts as not modified.
update_document(coll, doc_id, data, now) ==
  LET p == ObjectId(doc_id) IN
  IF p.raised THEN [raised |-> TRUE, ok |-> FALSE, coll |-> coll]
  ELSE IF p.oid \notin DOMAIN coll THEN [raised |-> FALSE, ok |-> FALSE, coll |-> coll]
  ELSE LET new == SetFields(coll[p.oid], SetFields(data, [updated_at |-> now])) IN
       [raised |-> FALSE, ok |-> new # coll[p.oid],
        coll |-> [coll EXCEPT ![p.oid] = new]]

\* delete_one({_id: ObjectId(doc_id)}); the parse is outside any try.
delete_document(coll, doc_id) ==
  LET p == ObjectId(doc_id) IN
  IF p.raised THEN [raised |-> TRUE, ok |-> FALSE, coll |-> coll]
  ELSE IF p.oid \notin DOMAIN coll THEN [raised |-> FALSE, ok |-> FALSE, coll |-> coll]
  ELSE [raised |-> FALSE, ok |-> TRUE,
        coll |-> [i \in (DOMAIN coll) \ {p.oid} |-> coll[i]]]

-----------------------------------------------------------------------------
(* schemas.py *)

Statuses == {"pending", "processing", "shipped", "delivered", "cancelled"}

\* OrderItem: price >= 0, quantity >= 1.
OrderItemValid(i) == i.price >= 0 /\ i.quantity >= 1

\* Order: items of at least one OrderItem, total_amount >= 0, status one of
\* the Literal's five.
OrderValid(o) ==
  /\ Len(o.items) >= 1
  /\ \A k \in 1..Len(o.items) : OrderItemValid(o.items[k])
  /\ o.total_amount >= 0
  /\ o.status \in Statuses

\* Book: price >= 0, stock >= 0.
BookValid(b) == b.price >= 0 /\ b.stock >= 0

-----------------------------------------------------------------------------
(* main.py: responses *)

Response(op, code, detail, body) ==
  [op |-> op, code |-> code, detail |-> detail, body |-> body]

NoResponse == Response("none", 0, "", None)

\* doc["id"] = str(doc.pop("_id"))
WithId(doc) ==
  [f \in ((DOMAIN doc) \ {"_id"}) \cup {"id"} |->
     IF f = "id" THEN IdStr(doc._id) ELSE doc[f]]

\* FastAPI's answer to a body that fails the route's model.
Unprocessable(op) == Response(op, 422, "validation error", None)

\* An exception no handler catches.
ServerError(op, what) == Response(op, 500, what, None)

Tick ==
  /\ clock < MaxClock
  /\ clock' = clock + 1
  /\ UNCHANGED <<started, adminuser, book, order, nextId, resp, inflight>>

-----------------------------------------------------------------------------
(* main.py: orders *)

Item1 == [book_id |-> IdStr(1), title |-> "t1", price |-> 20, quantity |-> 2]
Item2 == [book_id |-> IdStr(2), title |-> "t2", price |-> 11, quantity |-> 1]
ItemNoQuantity == [book_id |-> IdStr(1), title |-> "t1", price |-> 20, quantity |-> 0]

ItemLists == {<<>>, <<Item1, Item2>>, <<ItemNoQuantity>>}

OrderCreates ==
  [customer_name : {"ann"}, customer_email : {"ann@example.com"},
   items : ItemLists, notes : {None}]

StatusStrings == Statuses \cup {"archived"}

RECURSIVE ItemsTotal_prices_only(_)
ItemsTotal_prices_only(items) ==
  IF items = <<>> THEN 0
  ELSE Head(items).price + ItemsTotal_prices_only(Tail(items))

\* sum(i.price * i.quantity for i in payload.items)
RECURSIVE ItemsTotal(_)
ItemsTotal(items) ==
  IF items = <<>> THEN 0
  ELSE Head(items).price * Head(items).quantity + ItemsTotal(Tail(items))

create_order(payload) ==
  /\ started
  /\ nextId <= LastId
  /\ IF \E k \in 1..Len(payload.items) : ~OrderItemValid(payload.items[k])
     THEN /\ resp' = Unprocessable("create_order")
          /\ UNCHANGED <<order, nextId>>
     ELSE LET total == ItemsTotal(payload.items)
              new == [customer_name |-> payload.customer_name,
                      customer_email |-> payload.customer_email,
                      items |-> payload.items,
                      total_amount |-> total,
                      status |-> "pending",
                      notes |-> payload.notes]
          IN IF ~OrderValid(new)
             THEN /\ resp' = ServerError("create_order", "ValidationError")
                  /\ UNCHANGED <<order, nextId>>
             ELSE LET stored == create_document(order, nextId, new, clock)
                      doc == get_document_by_id(stored, IdStr(nextId))
                  IN /\ order' = stored
                     /\ nextId' = nextId + 1
                     /\ resp' = Response("create_order", 200, "", Some(WithId(doc[1])))
  /\ UNCHANGED <<started, adminuser, book, clock, inflight>>

allowed_with_archived == Statuses \cup {"archived"}

\* allowed = {"pending", "processing", "shipped", "delivered", "cancelled"}
allowed == {"pending", "processing", "shipped", "delivered", "cancelled"}

update_order_status_write_first(order_id, status) ==
  /\ started
  /\ LET u == update_document(order, order_id, [status |-> status], clock) IN
     IF u.raised
     THEN /\ resp' = ServerError("update_order_status", "InvalidId")
          /\ UNCHANGED order
     ELSE /\ order' = u.coll
          /\ resp' = IF status \notin allowed
                     THEN Response("update_order_status", 400, "Invalid status", None)
                     ELSE IF ~u.ok
                     THEN Response("update_order_status", 404, "Order not found", None)
                     ELSE Response("update_order_status", 200, "",
                                   Some(WithId(get_document_by_id(u.coll, order_id)[1])))
  /\ UNCHANGED <<started, adminuser, book, clock, nextId, inflight>>

update_order_status(order_id, status) ==
  /\ started
  /\ IF status \notin allowed
     THEN /\ resp' = Response("update_order_status", 400, "Invalid status", None)
          /\ UNCHANGED order
     ELSE LET u == update_document(order, order_id, [status |-> status], clock) IN
          IF u.raised
          THEN /\ resp' = ServerError("update_order_status", "InvalidId")
               /\ UNCHANGED order
          ELSE IF ~u.ok
          THEN /\ resp' = Response("update_order_status", 404, "Order not found", None)
               /\ order' = u.coll
          ELSE LET doc == get_document_by_id(u.coll, order_id) IN
               /\ order' = u.coll
               /\ resp' = Response("update_order_status", 200, "", Some(WithId(doc[1])))
  /\ UNCHANGED <<started, adminuser, book, clock, nextId, inflight>>

MatchNotCancelled_all(coll) == DOMAIN coll

\* $match {status: {$ne: "cancelled"}}
MatchNotCancelled(coll) == {i \in DOMAIN coll : coll[i].status # "cancelled"}

\* $sum of total_amount over the matched documents
RECURSIVE SumTotalAmount(_, _)
SumTotalAmount(coll, ids) ==
  IF ids = {} THEN 0
  ELSE LET i == CHOOSE i \in ids : TRUE
       IN coll[i].total_amount + SumTotalAmount(coll, ids \ {i})

\* $group {_id: None, sum: ...}: one group when a document matched, none
\* otherwise.
Aggregate(coll) ==
  LET matched == MatchNotCancelled(coll) IN
  IF matched = {} THEN <<>>
  ELSE <<[_id |-> None, sum |-> SumTotalAmount(coll, matched)]>>

count_documents(coll, status) ==
  Cardinality({i \in DOMAIN coll : status = None \/ coll[i].status = status[1]})

get_admin_stats ==
  /\ started
  /\ LET agg == Aggregate(order)
         stats == [total_books |-> Cardinality(DOMAIN book),
                   total_orders |-> count_documents(order, None),
                   pending_orders |-> count_documents(order, Some("pending")),
                   revenue |-> IF agg # <<>> THEN agg[1].sum ELSE 0]
     IN resp' = Response("get_admin_stats", 200, "", Some(stats))
  /\ UNCHANGED <<started, adminuser, book, order, clock, nextId, inflight>>

-----------------------------------------------------------------------------
(* main.py: books *)

BookFields == {"title", "author", "price", "stock", "description", "cover_url"}

\* description and cover_url are Optional in Book too: stored as None or Some.
OptionalFields == {"description", "cover_url"}

BookCreates ==
  [title : {"t1"}, author : {"a1"}, price : {0, -1}, stock : {0},
   description : {None}, cover_url : {None}]

NoFields ==
  [title |-> None, author |-> None, price |-> None, stock |-> None,
   description |-> None, cover_url |-> None]

BookUpdates ==
  {NoFields,
   [NoFields EXCEPT !.price = Some(3)],
   [NoFields EXCEPT !.price = Some(-1), !.title = Some("t2"),
                    !.description = Some("d2")]}

\* {k: v for k, v in payload.model_dump().items() if v is not None}
SuppliedFields(payload) ==
  LET keys == {k \in DOMAIN payload : payload[k] # None} IN
  [k \in keys |-> IF k \in OptionalFields THEN payload[k] ELSE payload[k][1]]

create_book(payload) ==
  /\ started
  /\ nextId <= LastId
  /\ IF ~BookValid(payload)
     THEN /\ resp' = Unprocessable("create_book")
          /\ UNCHANGED <<book, nextId>>
     ELSE LET stored == create_document(book, nextId, payload, clock)
              doc == get_document_by_id(stored, IdStr(nextId))
          IN /\ book' = stored
             /\ nextId' = nextId + 1
             /\ resp' = Response("create_book", 200, "", Some(WithId(doc[1])))
  /\ UNCHANGED <<started, adminuser, order, clock, inflight>>

get_book(book_id) ==
  /\ started
  /\ LET doc == get_document_by_id(book, book_id) IN
     resp' = IF doc = None
             THEN Response("get_book", 404, "Book not found", None)
             ELSE Response("get_book", 200, "", Some(WithId(doc[1])))
  /\ UNCHANGED <<started, adminuser, book, order, clock, nextId, inflight>>

update_book(book_id, payload) ==
  /\ started
  /\ LET u == update_document(book, book_id, SuppliedFields(payload), clock) IN
     IF u.raised
     THEN /\ resp' = ServerError("update_book", "InvalidId")
          /\ UNCHANGED book
     ELSE IF ~u.ok
     THEN /\ resp' = Response("update_book", 404, "Book not found or no changes", None)
          /\ book' = u.coll
     ELSE LET doc == get_document_by_id(u.coll, book_id) IN
          /\ book' = u.coll
          /\ resp' = Response("update_book", 200, "", Some(WithId(doc[1])))
  /\ UNCHANGED <<started, adminuser, order, clock, nextId, inflight>>

delete_book(book_id) ==
  /\ started
  /\ LET d == delete_document(book, book_id) IN
     IF d.raised
     THEN /\ resp' = ServerError("delete_book", "InvalidId")
          /\ UNCHANGED book
     ELSE IF ~d.ok
     THEN /\ resp' = Response("delete_book", 404, "Book not found", None)
          /\ book' = d.coll
     ELSE /\ book' = d.coll
          /\ resp' = Response("delete_book", 200, "deleted", None)
  /\ UNCHANGED <<started, adminuser, order, clock, nextId, inflight>>

-----------------------------------------------------------------------------
(* main.py: concurrent requests. Handlers run on a thread pool; each store
   call of a handler is one atomic step and other requests' steps come in
   between. inflight[c] is the request client c has in flight. *)

Clients == 1..NumClients

ConcurrentStatuses == {"shipped", "cancelled", "archived"}
ConcurrentBookUpdates == {[NoFields EXCEPT !.price = Some(3)]}

Done(op, code, detail, body) ==
  [pc |-> "done", op |-> op, code |-> code, detail |-> detail, body |-> body]

\* update_order_status up to its store write: the allowed check.
status_request(c, order_id, status) ==
  /\ started
  /\ inflight[c].pc \in {"idle", "done"}
  /\ inflight' =
       [inflight EXCEPT ![c] =
          IF status \notin allowed
          THEN Done("update_order_status", 400, "Invalid status", None)
          ELSE [pc |-> "write", op |-> "update_order_status",
                id |-> order_id, data |-> [status |-> status]]]
  /\ UNCHANGED <<started, adminuser, book, order, clock, nextId, resp>>

\* update_order_status: update_document("order", ...), then the not-found check.
status_write(c) ==
  /\ inflight[c].pc = "write" /\ inflight[c].op = "update_order_status"
  /\ LET u == update_document(order, inflight[c].id, inflight[c].data, clock) IN
     /\ order' = u.coll
     /\ inflight' =
          [inflight EXCEPT ![c] =
             IF u.raised THEN Done("update_order_status", 500, "InvalidId", None)
             ELSE IF ~u.ok THEN Done("update_order_status", 404, "Order not found", None)
             ELSE [inflight[c] EXCEPT !.pc = "read"]]
  /\ UNCHANGED <<started, adminuser, book, clock, nextId, resp>>

\* update_order_status: get_document_by_id("order", ...) and the response.
status_read(c) ==
  /\ inflight[c].pc = "read" /\ inflight[c].op = "update_order_status"
  /\ LET doc == get_document_by_id(order, inflight[c].id) IN
     inflight' =
       [inflight EXCEPT ![c] =
          IF doc = None THEN Done("update_order_status", 500, "TypeError", None)
          ELSE Done("update_order_status", 200, "", Some(WithId(doc[1])))]
  /\ UNCHANGED <<started, adminuser, book, order, clock, nextId, resp>>

\* update_book up to its store write: the payload's supplied fields.
book_request(c, book_id, payload) ==
  /\ started
  /\ inflight[c].pc \in {"idle", "done"}
  /\ inflight' =
       [inflight EXCEPT ![c] =
          [pc |-> "write", op |-> "update_book",
           id |-> book_id, data |-> SuppliedFields(payload)]]
  /\ UNCHANGED <<started, adminuser, book, order, clock, nextId, resp>>

\* update_book: update_document("book", ...), then the not-found check.
book_write(c) ==
  /\ inflight[c].pc = "write" /\ inflight[c].op = "update_book"
  /\ LET u == update_document(book, inflight[c].id, inflight[c].data, clock) IN
     /\ book' = u.coll
     /\ inflight' =
          [inflight EXCEPT ![c] =
             IF u.raised THEN Done("update_book", 500, "InvalidId", None)
             ELSE IF ~u.ok
             THEN Done("update_book", 404, "Book not found or no changes", None)
             ELSE [inflight[c] EXCEPT !.pc = "read"]]
  /\ UNCHANGED <<started, adminuser, order, clock, nextId, resp>>

\* update_book: get_document_by_id("book", ...) and the response.
book_read(c) ==
  /\ inflight[c].pc = "read" /\ inflight[c].op = "update_book"
  /\ LET doc == get_document_by_id(book, inflight[c].id) IN
     inflight' =
       [inflight EXCEPT ![c] =
          IF doc = None THEN Done("update_book", 500, "TypeError", None)
          ELSE Done("update_book", 200, "", Some(WithId(doc[1])))]
  /\ UNCHANGED <<started, adminuser, book, order, clock, nextId, resp>>

-----------------------------------------------------------------------------
(* main.py: startup and login *)

\* pwd_context.hash / pwd_context.verify: a hash verifies exactly the
\* plaintext it was made from.
Hash(password) == [scheme |-> "pbkdf2_sha256", of |-> password]
Verify(password, password_hash) == password_hash = Hash(password)

SeedAdmin ==
  [name |-> "Admin", email |-> "admin@example.com",
   password_hash |-> Hash("admin123"), role |-> "admin", is_active |-> TRUE]

\* Startup hook: seed the default admin when the collection is empty.
ensure_admin_exists ==
  /\ ~started
  /\ started' = TRUE
  /\ IF Cardinality(DOMAIN adminuser) = 0
     THEN /\ adminuser' = create_document(adminuser, nextId, SeedAdmin, clock)
          /\ nextId' = nextId + 1
     ELSE UNCHANGED <<adminuser, nextId>>
  /\ UNCHANGED <<book, order, clock, resp, inflight>>

\* find_one({"email": email}): the first document with that email, or None.
find_one_by_email(coll, email) ==
  LET hits == {i \in DOMAIN coll : coll[i].email = email} IN
  IF hits = {} THEN None
  ELSE Some(coll[CHOOSE i \in hits : \A j \in hits : i <= j])

\* jwt.encode(data, SECRET_KEY, algorithm=ALGORITHM): the claims, signed.
create_access_token(data) ==
  [claims |-> data, key |-> "SECRET_KEY", algorithm |-> "HS256"]

Logins ==
  [email : {"admin@example.com", "ann@example.com", "bob@example.com",
            "cat@example.com", "dan@example.com", "eve@example.com"},
   password : {"admin123", "wrong"}]

admin_login_inactive_first(payload) ==
  /\ started
  /\ LET user == find_one_by_email(adminuser, payload.email) IN
     resp' =
       IF user # None /\ ~user[1].is_active
       THEN Response("admin_login", 403, "User is inactive", None)
       ELSE IF user = None \/ ~Verify(payload.password, user[1].password_hash)
       THEN Response("admin_login", 401, "Invalid credentials", None)
       ELSE IF user[1].role \notin {"admin", "staff"}
       THEN Response("admin_login", 403, "Unauthorized role", None)
       ELSE Response("admin_login", 200, "",
              Some([token |-> create_access_token(
                                [sub |-> IdStr(user[1]._id), role |-> user[1].role]),
                    profile |-> [id |-> IdStr(user[1]._id), name |-> user[1].name,
                                 email |-> user[1].email, role |-> user[1].role]]))
  /\ UNCHANGED <<started, adminuser, book, order, clock, nextId, inflight>>

admin_login(payload) ==
  /\ started
  /\ LET user == find_one_by_email(adminuser, payload.email) IN
     resp' =
       IF user = None \/ ~Verify(payload.password, user[1].password_hash)
       THEN Response("admin_login", 401, "Invalid credentials", None)
       ELSE IF ~user[1].is_active
       THEN Response("admin_login", 403, "User is inactive", None)
       ELSE IF user[1].role \notin {"admin", "staff"}
       THEN Response("admin_login", 403, "Unauthorized role", None)
       ELSE Response("admin_login", 200, "",
              Some([token |-> create_access_token(
                                [sub |-> IdStr(user[1]._id), role |-> user[1].role]),
                    profile |-> [id |-> IdStr(user[1]._id), name |-> user[1].name,
                                 email |-> user[1].email, role |-> user[1].role]]))
  /\ UNCHANGED <<started, adminuser, book, order, clock, nextId, inflight>>

-----------------------------------------------------------------------------
(* Specifications *)

Idle == [c \in 1..NumClients |-> [pc |-> "idle"]]

ValidOrderCreates == {p \in OrderCreates : p.items = <<Item1, Item2>>}
ValidBookCreates == {p \in BookCreates : BookValid(p)}

\* A fresh database.
Init ==
  /\ started = FALSE
  /\ adminuser = EmptyCollection
  /\ book = EmptyCollection
  /\ order = EmptyCollection
  /\ clock = 0
  /\ nextId = 1
  /\ resp = NoResponse
  /\ inflight = Idle

NextOrder ==
  \/ ensure_admin_exists
  \/ Tick
  \/ \E payload \in OrderCreates : create_order(payload)
  \/ \E order_id \in IdStrings, status \in StatusStrings :
       update_order_status(order_id, status)
  \/ get_admin_stats

SpecOrder == Init /\ [][NextOrder]_vars

\* The book routes that write.
NextBook ==
  \/ ensure_admin_exists
  \/ Tick
  \/ \E payload \in BookCreates : create_book(payload)
  \/ \E book_id \in IdStrings, payload \in BookUpdates : update_book(book_id, payload)
  \/ \E book_id \in IdStrings : delete_book(book_id)

SpecBook == Init /\ [][NextBook]_vars

\* The book routes that take an id, and the creates that give them books.
NextLookup ==
  \/ ensure_admin_exists
  \/ Tick
  \/ \E payload \in ValidBookCreates : create_book(payload)
  \/ \E book_id \in IdStrings : get_book(book_id)
  \/ \E book_id \in IdStrings, payload \in BookUpdates : update_book(book_id, payload)
  \/ \E book_id \in IdStrings : delete_book(book_id)

SpecLookup == Init /\ [][NextLookup]_vars

\* Admin users provisioned before this process started, each with the
\* password "admin123": active staff, inactive staff, an active and an
\* inactive user of a role outside admin and staff.
Provisioned ==
  <<[name |-> "Ann", email |-> "ann@example.com", password_hash |-> Hash("admin123"),
     role |-> "staff", is_active |-> TRUE],
    [name |-> "Bob", email |-> "bob@example.com", password_hash |-> Hash("admin123"),
     role |-> "staff", is_active |-> FALSE],
    [name |-> "Cat", email |-> "cat@example.com", password_hash |-> Hash("admin123"),
     role |-> "guest", is_active |-> TRUE],
    [name |-> "Dan", email |-> "dan@example.com", password_hash |-> Hash("admin123"),
     role |-> "guest", is_active |-> FALSE]>>

\* A database that holds any of the provisioned users, or none.
InitAuth ==
  /\ started = FALSE
  /\ \E S \in SUBSET (1..Len(Provisioned)) :
       adminuser = [i \in S |-> SetFields(Provisioned[i],
                                 [_id |-> i, created_at |-> 0, updated_at |-> 0])]
  /\ book = EmptyCollection
  /\ order = EmptyCollection
  /\ clock = 0
  /\ nextId = Len(Provisioned) + 1
  /\ resp = NoResponse
  /\ inflight = Idle

NextAuth ==
  \/ ensure_admin_exists
  \/ Tick
  \/ \E payload \in Logins : admin_login(payload)

SpecAuth == InitAuth /\ [][NextAuth]_vars


NextConcurrent ==
  \/ ensure_admin_exists
  \/ Tick
  \/ \E payload \in ValidOrderCreates : create_order(payload)
  \/ \E payload \in ValidBookCreates : create_book(payload)
  \/ \E c \in Clients, order_id \in IdStrings, status \in ConcurrentStatuses :
       status_request(c, order_id, status)
  \/ \E c \in Clients : status_write(c)
  \/ \E c \in Clients : status_read(c)
  \/ \E c \in Clients, book_id \in IdStrings, payload \in ConcurrentBookUpdates :
       book_request(c, book_id, payload)
  \/ \E c \in Clients : book_write(c)
  \/ \E c \in Clients : book_read(c)

SpecConcurrent == Init /\ [][NextConcurrent]_vars

-----------------------------------------------------------------------------
(* Claims about orders, under SpecOrder *)

\* The sum of price * quantity over a sequence of items, last item first.
RECURSIVE LineSum(_, _)
LineSum(items, k) ==
  IF k = 0 THEN 0 ELSE LineSum(items, k - 1) + items[k].quantity * items[k].price

\* The sum of total_amount over the orders of a set, largest id first.
RECURSIVE TotalOver(_)
TotalOver(ids) ==
  IF ids = {} THEN 0
  ELSE LET m == CHOOSE i \in ids : \A j \in ids : j <= i
       IN TotalOver(ids \ {m}) + order[m].total_amount

ExistingOrderIds == {IdStr(i) : i \in DOMAIN order}

\* C1: the stored status of every order is one of pending, processing,
\* shipped, delivered, cancelled, whatever creations and status updates
\* (valid or not) came before.
C1_StatusEnumerated ==
  \A i \in DOMAIN order : order[i].status \in Statuses

\* An order that valid updates moved on, right after an invalid one was refused.
C1_Witness ==
  /\ resp.op = "update_order_status" /\ resp.code = 400
  /\ \E i \in DOMAIN order : order[i].status = "delivered"

\* C2: a status update whose target is not one of the five fails with the
\* invalid-input error (400) and leaves the order collection, so every
\* order's status and updated_at, as it was, for any id: stored, absent or
\* malformed.
C2_InvalidStatusRejected ==
  [][\A order_id \in IdStrings, status \in StatusStrings \ Statuses :
       update_order_status(order_id, status) =>
         /\ resp'.code = 400
         /\ order' = order]_vars

\* An invalid update was refused at a later tick than an order's last write.
C2_Witness ==
  /\ resp.op = "update_order_status" /\ resp.code = 400
  /\ \E i \in DOMAIN order : order[i].updated_at < clock

\* C3: an order is created pending with total_amount the sum of price *
\* quantity over its items, and every stored order keeps total_amount equal
\* to that sum over its stored items through any status updates.
C3_TotalIsLineSum ==
  /\ \A i \in DOMAIN order :
       order[i].total_amount = LineSum(order[i].items, Len(order[i].items))
  /\ (resp.op = "create_order" /\ resp.code = 200) =>
       /\ resp.body[1].status = "pending"
       /\ resp.body[1].total_amount =
            LineSum(resp.body[1].items, Len(resp.body[1].items))
       /\ get_document_by_id(order, resp.body[1].id) # None
       /\ WithId(get_document_by_id(order, resp.body[1].id)[1]) = resp.body[1]

\* The order of 2 at 10.0 and 1 at 5.5 totals 25.5 (51 halves) and has had
\* its status updated.
C3_Witness ==
  \E i \in DOMAIN order :
    /\ order[i].items = <<Item1, Item2>>
    /\ order[i].total_amount = 51
    /\ order[i].status = "shipped"
    /\ order[i].updated_at > order[i].created_at

\* C4: the dashboard's revenue is the sum of total_amount over the orders
\* that are not cancelled, 0 when there are none; pending_orders counts the
\* pending orders and total_orders all orders.
C4_DashboardStats ==
  resp.op = "get_admin_stats" =>
    LET live == {i \in DOMAIN order : order[i].status # "cancelled"} IN
    /\ resp.code = 200
    /\ resp.body[1].revenue = TotalOver(live)
    /\ live = {} => resp.body[1].revenue = 0
    /\ resp.body[1].pending_orders =
         Cardinality({i \in DOMAIN order : order[i].status = "pending"})
    /\ resp.body[1].total_orders = Cardinality(DOMAIN order)

\* Stats read with one order cancelled and one not.
C4_Witness ==
  /\ resp.op = "get_admin_stats"
  /\ \E i, j \in DOMAIN order :
       /\ order[i].status = "cancelled"
       /\ order[j].status = "shipped"
       /\ resp.body[1].revenue = order[j].total_amount

\* C9: for a stored order and any of the five statuses as target, whatever
\* the order's current status, the status update succeeds (200) and the
\* stored status becomes the target.
C9_AnyTransitionSucceeds ==
  [][\A order_id \in ExistingOrderIds, status \in Statuses :
       update_order_status(order_id, status) =>
         /\ resp'.code = 200
         /\ order'[order_id.n].status = status]_vars

-----------------------------------------------------------------------------
(* Claims about books and the store helpers, under SpecBook and SpecLookup *)

ExistingBookIds == {IdStr(i) : i \in DOMAIN book}

\* C5: get_by_id, update and delete on an id that resolves to no document,
\* well-formed but absent or malformed, give the not-found result (404 from
\* each handler), raise nothing and leave the collection as it was.
C5_UnresolvedIdIsNotFound ==
  [][\A book_id \in IdStrings \ ExistingBookIds, payload \in BookUpdates :
       (get_book(book_id) \/ update_book(book_id, payload) \/ delete_book(book_id)) =>
         /\ resp'.code = 404
         /\ book' = book]_vars

\* C7: every stored book has price >= 0 and stock >= 0, whatever creates,
\* partial updates and deletes came before (a request that would store a
\* negative price or stock is refused and stores nothing).
C7_BooksNonNegative ==
  \A i \in DOMAIN book : book[i].price >= 0 /\ book[i].stock >= 0

\* The value a supplied field is stored as.
NewValue(payload, f) == IF f \in OptionalFields THEN payload[f] ELSE payload[f][1]

\* Field-level merge of payload into book n at the current tick: supplied
\* fields take the new value, the others and created_at keep theirs,
\* updated_at is the current tick (later than created_at when the clock has
\* moved on since creation), and every other book stays.
MergedInto(n, payload) ==
  /\ DOMAIN book' = DOMAIN book
  /\ \A f \in BookFields :
       book'[n][f] = IF payload[f] # None THEN NewValue(payload, f) ELSE book[n][f]
  /\ book'[n].created_at = book[n].created_at
  /\ book'[n]._id = n
  /\ book'[n].updated_at = clock
  /\ clock > book[n].created_at => book'[n].updated_at > book'[n].created_at
  /\ \A m \in (DOMAIN book) \ {n} : book'[m] = book[m]

\* C8 as stated: a partial update of a stored book is a field-level merge
\* that refreshes updated_at, touches no other book, and reports success.
C8_MergeAlwaysSucceeds ==
  [][\A book_id \in ExistingBookIds, payload \in BookUpdates :
       update_book(book_id, payload) =>
         /\ MergedInto(book_id.n, payload)
         /\ resp'.code = 200]_vars

\* C8 amended: the merge is as stated, and the update reports success (200
\* with the merged book as body) exactly when the merge changed the stored
\* book: some supplied field differs from the stored value or updated_at is
\* not already the current tick. Otherwise it answers 404.
C8_MergeSucceedsIfModified ==
  [][\A book_id \in ExistingBookIds, payload \in BookUpdates :
       (resp'.op = "update_book" /\ update_book(book_id, payload)) =>
         LET n == book_id.n
             changes ==
               \/ book[n].updated_at # clock
               \/ \E f \in BookFields :
                    payload[f] # None /\ NewValue(payload, f) # book[n][f]
         IN /\ MergedInto(n, payload)
            /\ resp'.code = IF changes THEN 200 ELSE 404
            /\ changes => resp'.body = Some(WithId(book'[n]))
            /\ ~changes => book' = book]_vars

\* A later update changed the price of one book and left its title and the
\* other book alone.
C8_Witness ==
  /\ resp.op = "update_book" /\ resp.code = 200
  /\ \E n, m \in DOMAIN book :
       /\ n # m
       /\ book[n].price = 3 /\ book[n].title = "t1"
       /\ book[n].updated_at > book[n].created_at
       /\ resp.body[1].id = IdStr(n)
       /\ book[m].updated_at = book[m].created_at

-----------------------------------------------------------------------------
(* Claims about login, under SpecAuth *)

\* C6: login fails with InvalidCredentials (401) when no admin user has the
\* email or the password does not verify; otherwise with InactiveAccount
\* (403) when the user is inactive; otherwise with UnauthorizedRole (403)
\* when the role is neither admin nor staff; otherwise it succeeds with a
\* token binding the user's id and role and a profile of exactly id, name,
\* email and role. So an inactive user gets 401 with a wrong password and
\* InactiveAccount with the right one.
C6_LoginDecisionOrder ==
  [][\A payload \in Logins :
       admin_login(payload) =>
         LET known == {i \in DOMAIN adminuser : adminuser[i].email = payload.email} IN
         /\ resp'.op = "admin_login"
         /\ IF \A i \in known : adminuser[i].password_hash # Hash(payload.password)
            THEN resp'.code = 401 /\ resp'.detail = "Invalid credentials"
            ELSE \E i \in known :
                   IF adminuser[i].is_active = FALSE
                   THEN resp'.code = 403 /\ resp'.detail = "User is inactive"
                   ELSE IF adminuser[i].role # "admin" /\ adminuser[i].role # "staff"
                   THEN resp'.code = 403 /\ resp'.detail = "Unauthorized role"
                   ELSE /\ resp'.code = 200
                        /\ resp'.body[1].token.claims =
                             [sub |-> IdStr(i), role |-> adminuser[i].role]
                        /\ DOMAIN resp'.body[1].profile = {"id", "name", "email", "role"}
                        /\ resp'.body[1].profile =
                             [id |-> IdStr(i), name |-> adminuser[i].name,
                              email |-> adminuser[i].email, role |-> adminuser[i].role]
         /\ resp'.code # 200 => resp'.body = None]_vars

\* The only user, inactive and of an unauthorized role, gave the right
\* password and was told the account is inactive.
C6_Witness ==
  /\ resp.op = "admin_login" /\ resp.code = 403 /\ resp.detail = "User is inactive"
  /\ Cardinality(DOMAIN adminuser) = 1
  /\ \A i \in DOMAIN adminuser : ~adminuser[i].is_active /\ adminuser[i].role = "guest"

-----------------------------------------------------------------------------
(* Claims about concurrent requests, under SpecConcurrent *)

\* C10: each store write is one atomic step; a valid status update of a
\* stored order succeeds at its write, whatever other requests are in
\* flight on the same order, and leaves that order with this write's
\* target status (so the last write applied decides the final status); a
\* write of a status or book update changes no document but its target.
C10_ConcurrentUpdatesSucceed ==
  [][\A c \in Clients :
       /\ (status_write(c) /\ inflight[c].id \in ExistingOrderIds) =>
            /\ inflight'[c].pc = "read"
            /\ order'[inflight[c].id.n].status = inflight[c].data.status
            /\ \A m \in (DOMAIN order) \ {inflight[c].id.n} : order'[m] = order[m]
            /\ book' = book
       /\ (book_write(c) /\ inflight[c].id \in ExistingBookIds) =>
            /\ \A m \in (DOMAIN book) \ {inflight[c].id.n} : book'[m] = book[m]
            /\ order' = order]_vars

=============================================================================
